---- MODULE Spec2Model ----
(***************************************************************************)
(* A model of bitf (src/src/index.ts): defineBitflags, combineFlags and    *)
(* the closure returned by bitflag().  The repository holds a second copy  *)
(* of the module (src/unnamed/part_002, lines 69-313); makeBitflag,        *)
(* createBitPosition and the unknown and bitPosition fields of describe's  *)
(* records exist in that copy only and are modelled from it, while the     *)
(* NODE_ENV condition of defineBitflags exists in src/src/index.ts only.   *)
(*                                                                         *)
(* JavaScript numbers are IEEE doubles; TLC integers are 32-bit.  A number *)
(* handed to the library from outside is therefore kept in sign-magnitude  *)
(* form with the magnitude's integer part split in two limbs,              *)
(*     |n| = hi * 2^16 + lo  (+ 0.frac),                                   *)
(* so that integers at and beyond 2^31 can be written down.  The results   *)
(* of the 32-bit operators (| & ^ ~) are signed 32-bit integers and are    *)
(* kept as plain TLC integers in -2^31 .. 2^31-1.                          *)
(* A JavaScript string is a sequence of fragments (characters, or the      *)
(* literal pieces of a template).                                          *)
(***************************************************************************)
EXTENDS Integers, Sequences, FiniteSets, TLC

VARIABLES
    w,          \* the wrapper obtained from bitflag(flag) on a raw input
    rw,         \* the wrapper obtained by re-wrapping the last derived number
    pool,       \* the numbers the caller passes as flags to the variadic methods
    ret,        \* the call whose result the caller holds: method, receiver, arguments, result
    inDomain,   \* history: every number handed to the library so far was in [0, 0x7FFFFFFF]
    obj,        \* the mapping the caller hands to defineBitflags (entries in insertion order)
    objFrozen,  \* Object.isFrozen(obj)
    nodeEnv,    \* process.env.NODE_ENV
    defRet,     \* the outcome of the last defineBitflags(obj) call
    writeRet,   \* the outcome of the last write to obj (assignment or delete)
    toppingsToAdd,      \* the pizza example: the toppings the customer asks for
    toppingsToRemove,   \* the pizza example: the toppings the customer declines
    order,      \* the pizza example: the outcome of configurePizzaOrder
    iters       \* the iterators obtained from w.describe(...), with their generator state

vars == <<w, rw, pool, ret, inDomain, obj, objFrozen, nodeEnv, defRet, writeRet,
          toppingsToAdd, toppingsToRemove, order, iters>>
exampleVars == <<toppingsToAdd, toppingsToRemove, order>>
iteratorVars == <<iters>>
engineVars == <<w, rw, pool, ret, inDomain>>
definerVars == <<obj, objFrozen, nodeEnv, defRet, writeRet>>

(***************************************************************************)
(* Bounds of the model.                                                    *)
(***************************************************************************)
MaxArgs == 2        \* longest argument list of a variadic call
MaxEntries == 2     \* most entries of a mapping handed to defineBitflags

(***************************************************************************)
(* JavaScript numbers.                                                     *)
(***************************************************************************)
Base == 2^16

Num(neg, hi, lo) == [k |-> "int", neg |-> neg, hi |-> hi, lo |-> lo, frac |-> <<>>]
Frac(neg, hi, lo, digits) == [k |-> "frac", neg |-> neg, hi |-> hi, lo |-> lo, frac |-> digits]
NaN == [k |-> "nan", neg |-> FALSE, hi |-> 0, lo |-> 0, frac |-> <<>>]
Infinity == [k |-> "inf", neg |-> FALSE, hi |-> 0, lo |-> 0, frac |-> <<>>]
NegInfinity == [k |-> "inf", neg |-> TRUE, hi |-> 0, lo |-> 0, frac |-> <<>>]
Undefined == [k |-> "undefined", neg |-> FALSE, hi |-> 0, lo |-> 0, frac |-> <<>>]

\* A signed 32-bit integer from its two unsigned 16-bit halves.
Signed(h, l) == IF h >= 2^15 THEN (h - Base) * Base + l ELSE h * Base + l

Hi16(x) == (x \div Base) % Base
Lo16(x) == x % Base

\* ToInt32 of ECMAScript, the conversion every bitwise operator applies to
\* its operands: NaN and the infinities give 0, a fraction is truncated
\* toward zero, and the integer is reduced modulo 2^32 into -2^31 .. 2^31-1.
ToInt32(n) ==
    IF n.k \notin {"int", "frac"} THEN 0
    ELSE LET h == n.hi % Base
             l == n.lo
         IN  IF ~n.neg THEN Signed(h, l)
             ELSE IF l = 0 THEN Signed((Base - h) % Base, 0)
             ELSE Signed(Base - 1 - h, Base - l)

\* The number a signed 32-bit result is, as a JavaScript number.
FromInt32(v) ==
    IF v >= 0 THEN Num(FALSE, v \div Base, v % Base)
    ELSE LET m == -(v + 1)
         IN  IF m % Base = Base - 1 THEN Num(TRUE, (m \div Base) + 1, 0)
             ELSE Num(TRUE, m \div Base, (m % Base) + 1)

RECURSIVE And16(_, _)
And16(a, b) ==
    IF a = 0 \/ b = 0 THEN 0
    ELSE (a % 2) * (b % 2) + 2 * And16(a \div 2, b \div 2)

RECURSIVE Or16(_, _)
Or16(a, b) ==
    IF a = 0 THEN b
    ELSE IF b = 0 THEN a
    ELSE (IF a % 2 = 1 \/ b % 2 = 1 THEN 1 ELSE 0) + 2 * Or16(a \div 2, b \div 2)

RECURSIVE Xor16(_, _)
Xor16(a, b) ==
    IF a = 0 THEN b
    ELSE IF b = 0 THEN a
    ELSE (IF a % 2 # b % 2 THEN 1 ELSE 0) + 2 * Xor16(a \div 2, b \div 2)

\* x & y, x | y, x ^ y and ~x on signed 32-bit integers.
BitAnd(x, y) == Signed(And16(Hi16(x), Hi16(y)), And16(Lo16(x), Lo16(y)))
BitOr(x, y) == Signed(Or16(Hi16(x), Hi16(y)), Or16(Lo16(x), Lo16(y)))
BitXor(x, y) == Signed(Xor16(Hi16(x), Hi16(y)), Xor16(Lo16(x), Lo16(y)))
BitNot(x) == Signed(Base - 1 - Hi16(x), Base - 1 - Lo16(x))

\* Number.prototype.toString() / the string a template literal gives a number.
Digit(d) == <<"0", "1", "2", "3", "4", "5", "6", "7", "8", "9">>[d + 1]

RECURSIVE Digits(_, _)
Digits(hi, lo) ==
    IF hi = 0 /\ lo < 10 THEN <<Digit(lo)>>
    ELSE LET t == (hi % 10) * Base + lo
         IN  Digits(hi \div 10, t \div 10) \o <<Digit(t % 10)>>

NumberToString(n) ==
    CASE n.k = "nan" -> <<"NaN">>
      [] n.k = "inf" -> (IF n.neg THEN <<"-">> ELSE <<>>) \o <<"Infinity">>
      [] n.k = "undefined" -> <<"undefined">>
      [] n.k = "int" ->
            (IF n.neg /\ (n.hi # 0 \/ n.lo # 0) THEN <<"-">> ELSE <<>>) \o Digits(n.hi, n.lo)
      [] n.k = "frac" ->
            (IF n.neg THEN <<"-">> ELSE <<>>) \o Digits(n.hi, n.lo) \o <<".">> \o n.frac

(***************************************************************************)
(* The Flag-Value Engine: combineFlags and the closure bitflag() returns.  *)
(***************************************************************************)
RECURSIVE combineLoop(_, _, _)
combineLoop(flags, i, result) ==
    IF i > Len(flags) THEN result
    ELSE combineLoop(flags, i + 1, BitOr(result, ToInt32(flags[i])))

combineFlags(flags) == combineLoop(flags, 1, 0)

NoWrapper == [live |-> FALSE, flag |-> Undefined, value |-> 0]

\* bitflag keeping 30 bits only
bitflag_Mask30(flag) ==
    LET arg == IF flag.k = "undefined" THEN Num(FALSE, 0, 0) ELSE flag
    IN  [live |-> TRUE, flag |-> flag, value |-> BitAnd(ToInt32(arg), 2^30 - 1)]

\* bitflag clearing the sign bit as well
bitflag_Mask31(flag) ==
    LET arg == IF flag.k = "undefined" THEN Num(FALSE, 0, 0) ELSE flag
    IN  [live |-> TRUE, flag |-> flag, value |-> BitAnd(ToInt32(arg), 2147483647)]

\* bitflag refusing, as makeBitflag does, a number outside [0, 0x7FFFFFFF]:
\* no wrapper is made
bitflag_Validating(flag) ==
    IF flag.k = "int" /\ ((flag.neg /\ (flag.hi # 0 \/ flag.lo # 0)) \/ flag.hi >= 2^15)
    THEN [live |-> FALSE, flag |-> flag, value |-> 0]
    ELSE LET arg == IF flag.k = "undefined" THEN Num(FALSE, 0, 0) ELSE flag
         IN  [live |-> TRUE, flag |-> flag, value |-> BitOr(ToInt32(arg), 0)]

\* bitflag(flag = 0): the closure captures value = flag | 0.
bitflag(flag) ==
    LET arg == IF flag.k = "undefined" THEN Num(FALSE, 0, 0) ELSE flag
    IN  [live |-> TRUE, flag |-> flag, value |-> BitOr(ToInt32(arg), 0)]

\* has without its early return for an empty argument list
has_NoEmptyCheck(value, flags) ==
    LET combined == combineFlags(flags)
    IN  BitAnd(value, combined) = combined

\* has testing for a shared bit instead of all bits
has_AnyBit(value, flags) ==
    IF Len(flags) = 0 THEN FALSE
    ELSE LET combined == combineFlags(flags)
         IN  BitAnd(value, combined) # 0

\* has answering false when the arguments combine to 0
has_ZeroIsFalse(value, flags) ==
    IF Len(flags) = 0 THEN FALSE
    ELSE LET combined == combineFlags(flags)
         IN  combined # 0 /\ BitAnd(value, combined) = combined

has(value, flags) ==
    IF Len(flags) = 0 THEN FALSE
    ELSE LET combined == combineFlags(flags)
         IN  BitAnd(value, combined) = combined

hasAny(value, flags) ==
    IF Len(flags) = 0 THEN FALSE
    ELSE LET combined == combineFlags(flags)
         IN  BitAnd(value, combined) # 0

hasExact(value, flags) ==
    IF Len(flags) = 0 THEN value = 0
    ELSE LET combined == combineFlags(flags)
         IN  value = combined

\* add with ^ in place of |
add_Xor(value, flags) ==
    IF Len(flags) = 0 THEN value
    ELSE LET combined == combineFlags(flags)
         IN  BitXor(value, combined)

add(value, flags) ==
    IF Len(flags) = 0 THEN value
    ELSE LET combined == combineFlags(flags)
         IN  BitOr(value, combined)

\* remove with ^ in place of & ~
remove_Xor(value, flags) ==
    IF Len(flags) = 0 THEN value
    ELSE LET combined == combineFlags(flags)
         IN  BitXor(value, combined)

\* remove with | in place of &
remove_OrNot(value, flags) ==
    IF Len(flags) = 0 THEN value
    ELSE LET combined == combineFlags(flags)
         IN  BitOr(value, BitNot(combined))

remove(value, flags) ==
    IF Len(flags) = 0 THEN value
    ELSE LET combined == combineFlags(flags)
         IN  BitAnd(value, BitNot(combined))

\* toggle with | in place of ^
toggle_Or(value, flags) ==
    IF Len(flags) = 0 THEN value
    ELSE LET combined == combineFlags(flags)
         IN  BitOr(value, combined)

\* toggle flipping the arguments one after the other
RECURSIVE toggle_OneByOne(_, _)
toggle_OneByOne(value, flags) ==
    IF Len(flags) = 0 THEN value
    ELSE toggle_OneByOne(BitXor(value, ToInt32(Head(flags))), Tail(flags))

toggle(value, flags) ==
    IF Len(flags) = 0 THEN value
    ELSE LET combined == combineFlags(flags)
         IN  BitXor(value, combined)

clear(value) == 0

getValue(value) == value

valueOf(value) == value

toString(value) == NumberToString(FromInt32(value))

(***************************************************************************)
(* The caller's inputs.                                                    *)
(***************************************************************************)
Zero == Num(FALSE, 0, 0)
MaxFlagValue == Num(FALSE, 2^15 - 1, Base - 1)      \* 0x7FFFFFFF
Two31 == Num(FALSE, 2^15, 0)                        \* 0x80000000
MinusOne == Num(TRUE, 0, 1)                         \* -1

\* n is an integer in [0, 0x7FFFFFFF]
InFlagDomain(n) ==
    /\ n.k = "int"
    /\ ~n.neg \/ (n.hi = 0 /\ n.lo = 0)
    /\ n.hi < 2^15

\* The raw numbers handed to bitflag(): none, 5, 0x7FFFFFFF, -1, 0x80000000
\* and 2^32 + 5.
RawInputs ==
    { Undefined, Num(FALSE, 0, 5), MaxFlagValue, MinusOne, Two31, Num(FALSE, Base, 5) }

\* The flags a caller works with: two single bits (1, 4); a flag and a
\* combined flag that contains it (1, 5); the zero flag and 1 << 30; and a
\* pair of numbers that were never validated (6, 0x80000000).
FlagPools ==
    { {Num(FALSE, 0, 1), Num(FALSE, 0, 4)},
      {Num(FALSE, 0, 1), Num(FALSE, 0, 5)},
      {Zero, Num(FALSE, 2^14, 0)},
      {Num(FALSE, 0, 6), Two31} }

RECURSIVE SeqsUpTo(_, _)
SeqsUpTo(S, n) ==
    IF n = 0 THEN {<<>>}
    ELSE LET shorter == SeqsUpTo(S, n - 1)
         IN  shorter \cup {Append(q, x) : q \in {r \in shorter : Len(r) = n - 1}, x \in S}

\* The argument lists of up to MaxArgs flags over each pool.
ArgListsOf == [p \in FlagPools |-> SeqsUpTo(p, MaxArgs)]
ArgLists == ArgListsOf[pool]

AllInDomain(flags) == \A i \in 1..Len(flags) : InFlagDomain(flags[i])

Receivers == {"w", "rw"}
Receiver(t) == IF t = "w" THEN w ELSE rw

\* the argument of describe when it is called without one
NoTable == [defined |-> FALSE, entries |-> <<>>]

\* raw is a number returned as it was passed; err is the message of the
\* Error the call threw, empty when it returned; defs and recs are the
\* table handed to describe and the records it yielded
NoCall ==
    [op |-> "none", on |-> "w", flags |-> <<>>, bool |-> FALSE, num |-> 0, str |-> <<>>,
     raw |-> Undefined, err |-> <<>>, defs |-> NoTable, recs |-> <<>>]

Returned(op, t, flags, b, n, s) ==
    [op |-> op, on |-> t, flags |-> flags, bool |-> b, num |-> n, str |-> s,
     raw |-> Undefined, err |-> <<>>, defs |-> NoTable, recs |-> <<>>]

DeriveOps == {"add", "remove", "toggle", "clear"}

(***************************************************************************)
(* The engine's steps.  A wrapper is a closure over the constant `value`;  *)
(* the caller holds the first wrapper w, the wrapper rw made from the last *)
(* derived number, and the result of the last call.                        *)
(***************************************************************************)
\* const w = bitflag(flag)
Bitflag(flag) ==
    /\ ~w.live
    /\ w' = bitflag(flag)
    /\ inDomain' = (inDomain /\ (flag.k = "undefined" \/ InFlagDomain(flag)))
    /\ UNCHANGED <<rw, pool, ret>>
    /\ UNCHANGED <<definerVars, exampleVars, iteratorVars>>

\* rw = bitflag(n) for the number n that add/remove/toggle/clear returned;
\* the caller goes on with the new wrapper.
Rewrap ==
    /\ ret.op \in DeriveOps
    /\ rw' = bitflag(FromInt32(ret.num))
    /\ ret' = NoCall
    /\ UNCHANGED <<w, pool, inDomain>>
    /\ UNCHANGED <<definerVars, exampleVars, iteratorVars>>

Has(t, flags) ==
    /\ Receiver(t).live
    /\ ret' = Returned("has", t, flags, has(Receiver(t).value, flags), 0, <<>>)
    /\ inDomain' = (inDomain /\ AllInDomain(flags))
    /\ UNCHANGED <<w, rw, pool>>
    /\ UNCHANGED <<definerVars, exampleVars, iteratorVars>>

HasAny(t, flags) ==
    /\ Receiver(t).live
    /\ ret' = Returned("hasAny", t, flags, hasAny(Receiver(t).value, flags), 0, <<>>)
    /\ inDomain' = (inDomain /\ AllInDomain(flags))
    /\ UNCHANGED <<w, rw, pool>>
    /\ UNCHANGED <<definerVars, exampleVars, iteratorVars>>

HasExact(t, flags) ==
    /\ Receiver(t).live
    /\ ret' = Returned("hasExact", t, flags, hasExact(Receiver(t).value, flags), 0, <<>>)
    /\ inDomain' = (inDomain /\ AllInDomain(flags))
    /\ UNCHANGED <<w, rw, pool>>
    /\ UNCHANGED <<definerVars, exampleVars, iteratorVars>>

\* add that stores its result in the receiver's captured value
Add_InPlace(t, flags) ==
    /\ Receiver(t).live
    /\ ret' = Returned("add", t, flags, FALSE, add(Receiver(t).value, flags), <<>>)
    /\ inDomain' = (inDomain /\ AllInDomain(flags))
    /\ w' = IF t = "w" THEN [w EXCEPT !.value = add(w.value, flags)] ELSE w
    /\ rw' = IF t = "rw" THEN [rw EXCEPT !.value = add(rw.value, flags)] ELSE rw
    /\ UNCHANGED pool
    /\ UNCHANGED <<definerVars, exampleVars, iteratorVars>>

Add(t, flags) ==
    /\ Receiver(t).live
    /\ ret' = Returned("add", t, flags, FALSE, add(Receiver(t).value, flags), <<>>)
    /\ inDomain' = (inDomain /\ AllInDomain(flags))
    /\ UNCHANGED <<w, rw, pool>>
    /\ UNCHANGED <<definerVars, exampleVars, iteratorVars>>

Remove(t, flags) ==
    /\ Receiver(t).live
    /\ ret' = Returned("remove", t, flags, FALSE, remove(Receiver(t).value, flags), <<>>)
    /\ inDomain' = (inDomain /\ AllInDomain(flags))
    /\ UNCHANGED <<w, rw, pool>>
    /\ UNCHANGED <<definerVars, exampleVars, iteratorVars>>

Toggle(t, flags) ==
    /\ Receiver(t).live
    /\ ret' = Returned("toggle", t, flags, FALSE, toggle(Receiver(t).value, flags), <<>>)
    /\ inDomain' = (inDomain /\ AllInDomain(flags))
    /\ UNCHANGED <<w, rw, pool>>
    /\ UNCHANGED <<definerVars, exampleVars, iteratorVars>>

Clear(t) ==
    /\ Receiver(t).live
    /\ ret' = Returned("clear", t, <<>>, FALSE, clear(Receiver(t).value), <<>>)
    /\ UNCHANGED <<w, rw, pool, inDomain>>
    /\ UNCHANGED <<definerVars, exampleVars, iteratorVars>>

GetValue(t) ==
    /\ Receiver(t).live
    /\ ret' = Returned("value", t, <<>>, FALSE, getValue(Receiver(t).value), <<>>)
    /\ UNCHANGED <<w, rw, pool, inDomain>>
    /\ UNCHANGED <<definerVars, exampleVars, iteratorVars>>

ValueOf(t) ==
    /\ Receiver(t).live
    /\ ret' = Returned("valueOf", t, <<>>, FALSE, valueOf(Receiver(t).value), <<>>)
    /\ UNCHANGED <<w, rw, pool, inDomain>>
    /\ UNCHANGED <<definerVars, exampleVars, iteratorVars>>

ToStringCall(t) ==
    /\ Receiver(t).live
    /\ ret' = Returned("toString", t, <<>>, FALSE, 0, toString(Receiver(t).value))
    /\ UNCHANGED <<w, rw, pool, inDomain>>
    /\ UNCHANGED <<definerVars, exampleVars, iteratorVars>>

(***************************************************************************)
(* The Flag-Set Definer: defineBitflags(obj).                              *)
(***************************************************************************)
\* Number.isInteger(value)
IsInteger(n) == n.k = "int"

\* value < 0
LessThanZero(n) ==
    CASE n.k = "int" -> n.neg /\ (n.hi # 0 \/ n.lo # 0)
      [] n.k = "frac" -> n.neg
      [] n.k = "inf" -> n.neg
      [] OTHER -> FALSE

\* value > 0x7fffffff
GreaterThanMax(n) ==
    CASE n.k = "int" -> ~n.neg /\ n.hi >= 2^15
      [] n.k = "frac" -> ~n.neg /\ (n.hi >= 2^15 \/ (n.hi = 2^15 - 1 /\ n.lo = Base - 1))
      [] n.k = "inf" -> ~n.neg
      [] OTHER -> FALSE

\* the test that makes defineBitflags throw
Invalid(n) == ~IsInteger(n) \/ LessThanZero(n) \/ GreaterThanMax(n)

\* `Invalid bitflag value for "${key}": ${value}. Must be ...`
InvalidMessage(key, n) ==
    <<"Invalid bitflag value for \"", key, "\": ">> \o NumberToString(n)
        \o <<". Must be a non-negative integer within 31-bit range.">>

\* for (const [key, value] of Object.entries(frozen)): the index of the
\* first entry that fails the test, or 0.
RECURSIVE firstInvalid(_, _)
firstInvalid(entries, i) ==
    IF i > Len(entries) THEN 0
    ELSE IF Invalid(entries[i].value) THEN i
    ELSE firstInvalid(entries, i + 1)

NoOutcome == [kind |-> "none", env |-> "development", table |-> <<>>, message |-> <<>>]

\* the outcome of defineBitflags(entries) under NODE_ENV = env (recorded
\* with the outcome)
defineBitflags(entries, env) ==
    LET bad == IF env # "production" THEN firstInvalid(entries, 1) ELSE 0
    IN  IF bad # 0
        THEN [kind |-> "thrown", env |-> env, table |-> <<>>,
              message |-> InvalidMessage(entries[bad].key, entries[bad].value)]
        ELSE [kind |-> "returned", env |-> env, table |-> entries, message |-> <<>>]

Keys == {"A", "B", "C"}

\* The values a caller writes in a mapping: 0, 3, 0x7FFFFFFF, 1.5, NaN,
\* Infinity, -1 and 0x80000000.
EntryValues ==
    { Zero, Num(FALSE, 0, 3), MaxFlagValue, Frac(FALSE, 0, 1, <<"5">>), NaN, Infinity,
      MinusOne, Two31 }

Environments == {"development", "production"}

HasKey(entries, key) == \E i \in 1..Len(entries) : entries[i].key = key

NoWrite == [op |-> "none", threw |-> FALSE]

\* the entries with the entry at index i left out
Without(entries, i) == SubSeq(entries, 1, i - 1) \o SubSeq(entries, i + 1, Len(entries))

IndexOf(entries, key) == CHOOSE i \in 1..Len(entries) : entries[i].key = key

\* obj[key] = n in module (strict) code: a new key is appended, an existing
\* key keeps its place and takes the value; on a frozen object the
\* assignment throws a TypeError and changes nothing
Assign(key, n) ==
    /\ HasKey(obj, key) \/ Len(obj) < MaxEntries
    /\ obj' = IF objFrozen THEN obj
              ELSE IF HasKey(obj, key)
                   THEN [obj EXCEPT ![IndexOf(obj, key)].value = n]
                   ELSE Append(obj, [key |-> key, value |-> n])
    /\ writeRet' = [op |-> "set", threw |-> objFrozen]
    /\ UNCHANGED <<objFrozen, nodeEnv, defRet>>
    /\ UNCHANGED <<engineVars, exampleVars, iteratorVars>>

\* delete obj[key]: on a frozen object it throws a TypeError and changes
\* nothing
Delete(key) ==
    /\ HasKey(obj, key)
    /\ obj' = IF objFrozen THEN obj ELSE Without(obj, IndexOf(obj, key))
    /\ writeRet' = [op |-> "delete", threw |-> objFrozen]
    /\ UNCHANGED <<objFrozen, nodeEnv, defRet>>
    /\ UNCHANGED <<engineVars, exampleVars, iteratorVars>>

\* the caller starts a new object literal
NewObject ==
    /\ obj # <<>> \/ objFrozen
    /\ obj' = <<>>
    /\ objFrozen' = FALSE
    /\ defRet' = NoOutcome
    /\ writeRet' = NoWrite
    /\ UNCHANGED nodeEnv
    /\ UNCHANGED <<engineVars, exampleVars, iteratorVars>>

\* process.env.NODE_ENV = env
SetEnv(env) ==
    /\ nodeEnv # env
    /\ nodeEnv' = env
    /\ UNCHANGED <<obj, objFrozen, defRet, writeRet>>
    /\ UNCHANGED <<engineVars, exampleVars, iteratorVars>>

\* defineBitflags(obj) freezing the mapping only once it has passed the
\* validation
DefineBitflags_FreezeWhenValid ==
    /\ objFrozen' = (objFrozen \/ defineBitflags(obj, nodeEnv).kind = "returned")
    /\ defRet' = defineBitflags(obj, nodeEnv)
    /\ UNCHANGED <<obj, nodeEnv, writeRet>>
    /\ UNCHANGED <<engineVars, exampleVars, iteratorVars>>

\* defineBitflags(obj) without the Object.freeze
DefineBitflags_NoFreeze ==
    /\ defRet' = defineBitflags(obj, nodeEnv)
    /\ UNCHANGED <<obj, objFrozen, nodeEnv, writeRet>>
    /\ UNCHANGED <<engineVars, exampleVars, iteratorVars>>

\* defineBitflags(obj): Object.freeze(obj) comes first, then the validation
DefineBitflags ==
    /\ objFrozen' = TRUE
    /\ defRet' = defineBitflags(obj, nodeEnv)
    /\ UNCHANGED <<obj, nodeEnv, writeRet>>
    /\ UNCHANGED <<engineVars, exampleVars, iteratorVars>>

(***************************************************************************)
(* The utilities isBitflag, makeBitflag and unwrapBitflag.  isBitflag      *)
(* takes any value; values that are not numbers are the string '1' and     *)
(* null.                                                                   *)
(***************************************************************************)
StringOne == [k |-> "string", neg |-> FALSE, hi |-> 0, lo |-> 1, frac |-> <<>>]
Null == [k |-> "object", neg |-> FALSE, hi |-> 0, lo |-> 0, frac |-> <<>>]

\* typeof value
TypeOf(v) ==
    CASE v.k \in {"int", "frac", "nan", "inf"} -> "number"
      [] v.k = "undefined" -> "undefined"
      [] OTHER -> v.k

\* value >= 0
GreaterOrEqualZero(n) ==
    CASE n.k = "int" -> ~n.neg \/ (n.hi = 0 /\ n.lo = 0)
      [] n.k = "frac" -> ~n.neg
      [] n.k = "inf" -> ~n.neg
      [] OTHER -> FALSE

\* value <= 0x7fffffff
LessOrEqualMax(n) ==
    CASE n.k = "int" -> n.neg \/ n.hi < 2^15
      [] n.k = "frac" -> n.neg \/ (n.hi < 2^15 /\ ~(n.hi = 2^15 - 1 /\ n.lo = Base - 1))
      [] n.k = "inf" -> n.neg
      [] OTHER -> FALSE

isBitflag(value) ==
    /\ TypeOf(value) = "number"
    /\ IsInteger(value)
    /\ GreaterOrEqualZero(value)
    /\ LessOrEqualMax(value)

MakeBitflagMessage ==
    <<"Value cannot be converted to Bitflag. Possible causes are: value exceeding 31 bits or value being a negative number.">>

\* the value itself when isBitflag accepts it, otherwise the Error thrown
makeBitflag(value) ==
    IF isBitflag(value)
    THEN [threw |-> FALSE, value |-> value, message |-> <<>>]
    ELSE [threw |-> TRUE, value |-> Undefined, message |-> MakeBitflagMessage]

\* a cast: the number is returned as it is
unwrapBitflag(flag) == flag

\* The values handed to the utilities: undefined, null, '1', 0, 5,
\* 0x7FFFFFFF, -1, 0x80000000, 1.5, NaN and Infinity.
UtilInputs ==
    { Undefined, Null, StringOne, Zero, Num(FALSE, 0, 5), MaxFlagValue, MinusOne, Two31,
      Frac(FALSE, 0, 1, <<"5">>), NaN, Infinity }

IsBitflag(v) ==
    /\ ret' = Returned("isBitflag", "w", <<v>>, isBitflag(v), 0, <<>>)
    /\ UNCHANGED <<w, rw, pool, inDomain>>
    /\ UNCHANGED <<definerVars, exampleVars, iteratorVars>>

MakeBitflag(v) ==
    /\ LET r == makeBitflag(v)
       IN  ret' = [Returned("makeBitflag", "w", <<v>>, FALSE, 0, <<>>)
                      EXCEPT !.raw = r.value, !.err = r.message]
    /\ UNCHANGED <<w, rw, pool, inDomain>>
    /\ UNCHANGED <<definerVars, exampleVars, iteratorVars>>

\* unwrapBitflag takes a Bitflag: a value that isBitflag accepts
UnwrapBitflag(v) ==
    /\ isBitflag(v)
    /\ ret' = [Returned("unwrapBitflag", "w", <<v>>, FALSE, 0, <<>>)
                  EXCEPT !.raw = unwrapBitflag(v)]
    /\ UNCHANGED <<w, rw, pool, inDomain>>
    /\ UNCHANGED <<definerVars, exampleVars, iteratorVars>>

(***************************************************************************)
(* describe (src/unnamed/part_002): the records the generator yields, in   *)
(* the order it yields them.                                               *)
(***************************************************************************)
\* Number.prototype.toString(radix), digits in lower case
RadixDigit(d) ==
    <<"0", "1", "2", "3", "4", "5", "6", "7", "8", "9", "a", "b", "c", "d", "e", "f">>[d + 1]

RECURSIVE RadixDigits(_, _, _)
RadixDigits(hi, lo, radix) ==
    IF hi = 0 /\ lo < radix THEN <<RadixDigit(lo)>>
    ELSE LET t == (hi % radix) * Base + lo
         IN  RadixDigits(hi \div radix, t \div radix, radix) \o <<RadixDigit(t % radix)>>

ToStringRadix(n, radix) ==
    IF n.k = "int"
    THEN (IF n.neg /\ (n.hi # 0 \/ n.lo # 0) THEN <<"-">> ELSE <<>>)
            \o RadixDigits(n.hi, n.lo, radix)
    ELSE NumberToString(n)

UpperChar(c) ==
    CASE c = "a" -> "A" [] c = "b" -> "B" [] c = "c" -> "C"
      [] c = "d" -> "D" [] c = "e" -> "E" [] c = "f" -> "F"
      [] OTHER -> c

ToUpperCase(s) == [i \in 1..Len(s) |-> UpperChar(s[i])]

\* value === 0 for a number
IsZero(n) == n.k = "int" /\ n.hi = 0 /\ n.lo = 0

\* x === n for a 32-bit result x and a number n that is not zero
StrictEquals(x, n) == FromInt32(x) = n

\* 1 << i for i in 0..30
ShiftLeftOne(i) == 2^i

\* the tokens pushed from bit 0 upward
RECURSIVE bitsLoop_LowFirst(_, _)
bitsLoop_LowFirst(v, i) ==
    IF i < 0 THEN <<>>
    ELSE bitsLoop_LowFirst(v, i - 1)
            \o (IF BitAnd(v, ShiftLeftOne(i)) # 0 THEN <<"[", "1", "]">> ELSE <<"0">>)

\* the tokens with a bare '1' for a set bit
RECURSIVE bitsLoop_BareOne(_, _)
bitsLoop_BareOne(v, i) ==
    IF i < 0 THEN <<>>
    ELSE (IF BitAnd(v, ShiftLeftOne(i)) # 0 THEN <<"1">> ELSE <<"0">>)
            \o bitsLoop_BareOne(v, i - 1)

\* the tokens pushed by the loop from i down to 0, joined
RECURSIVE bitsLoop(_, _)
bitsLoop(v, i) ==
    IF i < 0 THEN <<>>
    ELSE (IF BitAnd(v, ShiftLeftOne(i)) # 0 THEN <<"[", "1", "]">> ELSE <<"0">>)
            \o bitsLoop(v, i - 1)

\* '(0)0000000000000000000000000000000'
ZeroVisual == <<"(", "0", ")">> \o [i \in 1..31 |-> "0"]

\* createBitPosition taking the lowest set bit for `exact`
createBitPosition_LowestBit(value) ==
    IF IsZero(value)
    THEN [exact |-> -1, remaining |-> 31, visual |-> ZeroVisual]
    ELSE LET v == ToInt32(value)
             exactPositions == {i \in 0..30 : BitAnd(v, ShiftLeftOne(i)) # 0}
             minPosition ==
                 IF exactPositions # {}
                 THEN CHOOSE i \in exactPositions : \A j \in exactPositions : i <= j
                 ELSE 0
         IN  [exact |-> minPosition, remaining |-> 31 - minPosition,
              visual |-> <<"(", "0", ")">> \o bitsLoop(v, 30)]

createBitPosition(value) ==
    IF IsZero(value)
    THEN [exact |-> -1, remaining |-> 31, visual |-> ZeroVisual]
    ELSE LET v == ToInt32(value)
             exactPositions == {i \in 0..30 : BitAnd(v, ShiftLeftOne(i)) # 0}
             maxPosition ==
                 IF exactPositions # {}
                 THEN CHOOSE i \in exactPositions : \A j \in exactPositions : j <= i
                 ELSE 0
         IN  [exact |-> maxPosition, remaining |-> 31 - maxPosition,
              visual |-> <<"(", "0", ")">> \o bitsLoop(v, 30)]

\* the record yielded at the start for the value 0
NoneRecord ==
    [name |-> <<"NONE">>, value |-> Zero, decimal |-> <<"0">>,
     hexadecimal |-> <<"0x", "0">>, binary |-> <<"0b", "0">>,
     unknown |-> FALSE, bitPosition |-> createBitPosition(Zero)]

\* the record built for a number: a table value or a mask
FlagRecord(name, numValue, unknown) ==
    [name |-> name, value |-> numValue, decimal |-> NumberToString(numValue),
     hexadecimal |-> <<"0x">> \o ToUpperCase(ToStringRadix(numValue, 16)),
     binary |-> <<"0b">> \o ToStringRadix(numValue, 2),
     unknown |-> unknown, bitPosition |-> createBitPosition(numValue)]

\* the loop over the table taking an entry for any bit it shares with the value
RECURSIVE knownLoop_AnyBit(_, _, _, _, _)
knownLoop_AnyBit(value, entries, i, knownFlags, unknownBits) ==
    IF i > Len(entries)
    THEN [knownFlags |-> knownFlags, unknownBits |-> unknownBits]
    ELSE LET numValue == entries[i].value
         IN  IF ~IsZero(numValue) /\ BitAnd(value, ToInt32(numValue)) # 0
             THEN knownLoop_AnyBit(value, entries, i + 1,
                            Append(knownFlags, FlagRecord(<<entries[i].key>>, numValue, FALSE)),
                            BitAnd(unknownBits, BitNot(ToInt32(numValue))))
             ELSE knownLoop_AnyBit(value, entries, i + 1, knownFlags, unknownBits)

\* the loop over the table without the test numValue !== 0
RECURSIVE knownLoop_NoZeroCheck(_, _, _, _, _)
knownLoop_NoZeroCheck(value, entries, i, knownFlags, unknownBits) ==
    IF i > Len(entries)
    THEN [knownFlags |-> knownFlags, unknownBits |-> unknownBits]
    ELSE LET numValue == entries[i].value
         IN  IF FromInt32(BitAnd(value, ToInt32(numValue))) = numValue
             THEN knownLoop_NoZeroCheck(value, entries, i + 1,
                            Append(knownFlags, FlagRecord(<<entries[i].key>>, numValue, FALSE)),
                            BitAnd(unknownBits, BitNot(ToInt32(numValue))))
             ELSE knownLoop_NoZeroCheck(value, entries, i + 1, knownFlags, unknownBits)

\* the loop over the table without unknownBits &= ~numValue
RECURSIVE knownLoop_KeepsUnknown(_, _, _, _, _)
knownLoop_KeepsUnknown(value, entries, i, knownFlags, unknownBits) ==
    IF i > Len(entries)
    THEN [knownFlags |-> knownFlags, unknownBits |-> unknownBits]
    ELSE LET numValue == entries[i].value
         IN  IF ~IsZero(numValue) /\ StrictEquals(BitAnd(value, ToInt32(numValue)), numValue)
             THEN knownLoop_KeepsUnknown(value, entries, i + 1,
                            Append(knownFlags, FlagRecord(<<entries[i].key>>, numValue, FALSE)),
                            unknownBits)
             ELSE knownLoop_KeepsUnknown(value, entries, i + 1, knownFlags, unknownBits)

\* for (const [name, flagValue] of Object.entries(flagDefinitions))
RECURSIVE knownLoop(_, _, _, _, _)
knownLoop(value, entries, i, knownFlags, unknownBits) ==
    IF i > Len(entries)
    THEN [knownFlags |-> knownFlags, unknownBits |-> unknownBits]
    ELSE LET numValue == entries[i].value
         IN  IF ~IsZero(numValue) /\ StrictEquals(BitAnd(value, ToInt32(numValue)), numValue)
             THEN knownLoop(value, entries, i + 1,
                            Append(knownFlags, FlagRecord(<<entries[i].key>>, numValue, FALSE)),
                            BitAnd(unknownBits, BitNot(ToInt32(numValue))))
             ELSE knownLoop(value, entries, i + 1, knownFlags, unknownBits)

\* the loop over the bits stopping before bit 30
RECURSIVE bitLoop_Below30(_, _, _, _)
bitLoop_Below30(bits, bit, prefix, unknown) ==
    IF bit >= 30 THEN <<>>
    ELSE LET mask == ShiftLeftOne(bit)
         IN  (IF BitAnd(bits, mask) # 0
              THEN <<FlagRecord(<<prefix>> \o NumberToString(FromInt32(bit)),
                                FromInt32(mask), unknown)>>
              ELSE <<>>)
                 \o bitLoop_Below30(bits, bit + 1, prefix, unknown)

\* for (let bit = 0; bit < 31; bit++): a record for every bit of `bits`
RECURSIVE bitLoop(_, _, _, _)
bitLoop(bits, bit, prefix, unknown) ==
    IF bit >= 31 THEN <<>>
    ELSE LET mask == ShiftLeftOne(bit)
         IN  (IF BitAnd(bits, mask) # 0
              THEN <<FlagRecord(<<prefix>> \o NumberToString(FromInt32(bit)),
                                FromInt32(mask), unknown)>>
              ELSE <<>>)
                 \o bitLoop(bits, bit + 1, prefix, unknown)

\* describe without its first branch for the value 0
describe_NoZeroCase(value, flagDefinitions) ==
    LET k == IF flagDefinitions.defined
             THEN knownLoop(value, flagDefinitions.entries, 1, <<>>, value)
             ELSE [knownFlags |-> <<>>, unknownBits |-> value]
    IN  IF ~flagDefinitions.defined \/ Len(flagDefinitions.entries) = 0
        THEN bitLoop(value, 0, "BIT_", FALSE)
        ELSE k.knownFlags
                \o (IF k.unknownBits # 0
                    THEN bitLoop(k.unknownBits, 0, "UNKNOWN_BIT_", TRUE)
                    ELSE <<>>)

\* describe yielding the unknown bits before the known flags
describe_UnknownFirst(value, flagDefinitions) ==
    IF value = 0 THEN <<NoneRecord>>
    ELSE LET k == IF flagDefinitions.defined
                  THEN knownLoop(value, flagDefinitions.entries, 1, <<>>, value)
                  ELSE [knownFlags |-> <<>>, unknownBits |-> value]
         IN  IF ~flagDefinitions.defined \/ Len(flagDefinitions.entries) = 0
             THEN bitLoop(value, 0, "BIT_", FALSE)
             ELSE (IF k.unknownBits # 0
                   THEN bitLoop(k.unknownBits, 0, "UNKNOWN_BIT_", TRUE)
                   ELSE <<>>)
                     \o k.knownFlags

describe(value, flagDefinitions) ==
    IF value = 0 THEN <<NoneRecord>>
    ELSE LET k == IF flagDefinitions.defined
                  THEN knownLoop(value, flagDefinitions.entries, 1, <<>>, value)
                  ELSE [knownFlags |-> <<>>, unknownBits |-> value]
         IN  IF ~flagDefinitions.defined \/ Len(flagDefinitions.entries) = 0
             THEN bitLoop(value, 0, "BIT_", FALSE)
             ELSE k.knownFlags
                     \o (IF k.unknownBits # 0
                         THEN bitLoop(k.unknownBits, 0, "UNKNOWN_BIT_", TRUE)
                         ELSE <<>>)

Table(entries) == [defined |-> TRUE, entries |-> entries]
Entry(key, v) == [key |-> key, value |-> Num(FALSE, v \div Base, v % Base)]

\* The tables handed to describe: none, {}, two single bits, a combined
\* flag before its parts, two names for one bit, a zero-valued name with the
\* top bit, a table of a zero-valued name alone, and the largest flag.
Tables ==
    { NoTable,
      Table(<<>>),
      Table(<<Entry("READ", 1), Entry("EXECUTE", 4)>>),
      Table(<<Entry("READ_WRITE", 3), Entry("READ", 1), Entry("WRITE", 2),
              Entry("EXECUTE", 4)>>),
      Table(<<Entry("WRITE", 2), Entry("ALIAS", 2)>>),
      Table(<<Entry("NONE", 0), Entry("TOP", 2^30)>>),
      Table(<<Entry("EMPTY", 0)>>),
      Table(<<Entry("MAX_VALUE", 2147483647)>>) }

\* The raw numbers whose wrappers are described: none, 0, 1, 5, 6, 7,
\* 2^30 + 3, 0x7FFFFFFF, -1 and 0x80000000.
DescribeInputs ==
    { Undefined, Zero, Num(FALSE, 0, 1), Num(FALSE, 0, 5), Num(FALSE, 0, 6), Num(FALSE, 0, 7),
      Num(FALSE, 2^14, 3), MaxFlagValue, MinusOne, Two31 }

\* [...bitflag(x).describe(flagDefinitions)]: the generator drained
Describe(t, flagDefinitions) ==
    /\ Receiver(t).live
    /\ ret' = [Returned("describe", t, <<>>, FALSE, 0, <<>>)
                  EXCEPT !.defs = flagDefinitions,
                         !.recs = describe(Receiver(t).value, flagDefinitions)]
    /\ UNCHANGED <<w, rw, pool, inDomain>>
    /\ UNCHANGED <<definerVars, exampleVars, iteratorVars>>

(***************************************************************************)
(* The usage example: a pizza order (examples/pizza.ts).                   *)
(***************************************************************************)
Toppings ==
    defineBitflags(<<Entry("CHEESE", 1), Entry("PEPPERONI", 2), Entry("MUSHROOMS", 4),
                     Entry("OREGANO", 8), Entry("PINEAPPLE", 16), Entry("BACON", 32),
                     Entry("HAM", 64)>>, "development").table

\* Toppings.CHEESE, Toppings.PEPPERONI, ...
Topping(key) == Toppings[IndexOf(Toppings, key)].value

ToppingNames == {Toppings[i].key : i \in 1..Len(Toppings)}

Sizes == {"small", "medium", "large"}

\* if (n): a number is truthy unless it is 0 or NaN
Truthy(n) == ~(n.k \in {"nan", "undefined"} \/ IsZero(n))

processToppingsRemoval(currentPizza, toppingsToRemove_) ==
    IF Truthy(FromInt32(toppingsToRemove_))
    THEN remove(bitflag(FromInt32(currentPizza)).value, <<FromInt32(toppingsToRemove_)>>)
    ELSE currentPizza

\* TRUE when validateMeatAddition throws
validateMeatAddition(currentPizza, toppingsToAdd_) ==
    LET currentHasMeat ==
            hasAny(bitflag(FromInt32(currentPizza)).value,
                   <<Topping("PEPPERONI"), Topping("BACON"), Topping("HAM")>>)
        requestingMeat ==
            hasAny(bitflag(FromInt32(toppingsToAdd_)).value,
                   <<Topping("PEPPERONI"), Topping("BACON"), Topping("HAM")>>)
    IN  currentHasMeat /\ requestingMeat

NoOrder ==
    [kind |-> "none", message |-> <<>>, size |-> "", pizza |-> 0,
     hawaiianPizzaDiscount |-> FALSE]

Rejected(message) == [NoOrder EXCEPT !.kind = "thrown", !.message = message]

configurePizzaOrder(desiredSize, toppingsToAdd_, toppingsToRemove_) ==
    IF has(bitflag(FromInt32(toppingsToRemove_)).value, <<Topping("CHEESE")>>)
    THEN Rejected(<<"Cheese is always included in our pizzas!">>)
    ELSE LET defaultPizza ==
                 add(bitflag(Undefined).value, <<Topping("CHEESE"), Topping("PEPPERONI")>>)
             pizzaAfterRemoval == processToppingsRemoval(defaultPizza, toppingsToRemove_)
         IN  IF validateMeatAddition(pizzaAfterRemoval, toppingsToAdd_)
             THEN Rejected(<<"Only one type of meat is allowed per pizza!">>)
             ELSE LET finalPizza ==
                          add(bitflag(FromInt32(pizzaAfterRemoval)).value,
                              <<FromInt32(toppingsToAdd_)>>)
                  IN  [kind |-> "returned", message |-> <<>>, size |-> desiredSize,
                       pizza |-> finalPizza,
                       hawaiianPizzaDiscount |->
                           hasExact(bitflag(FromInt32(finalPizza)).value,
                                    <<Topping("CHEESE"), Topping("HAM"),
                                      Topping("PINEAPPLE")>>)]

\* toppingsToAdd: bitflag().add(Toppings.X, ...), one topping at a time
WantTopping(key) ==
    /\ order.kind = "none"
    /\ toppingsToAdd' = add(bitflag(FromInt32(toppingsToAdd)).value, <<Topping(key)>>)
    /\ UNCHANGED <<toppingsToRemove, order>>
    /\ UNCHANGED <<engineVars, definerVars, iteratorVars>>

\* toppingsToRemove: bitflag().add(Toppings.X, ...), one topping at a time
DeclineTopping(key) ==
    /\ order.kind = "none"
    /\ toppingsToRemove' = add(bitflag(FromInt32(toppingsToRemove)).value, <<Topping(key)>>)
    /\ UNCHANGED <<toppingsToAdd, order>>
    /\ UNCHANGED <<engineVars, definerVars, iteratorVars>>

\* await configurePizzaOrder({ desiredSize, toppingsToAdd, toppingsToRemove })
ConfigurePizzaOrder(desiredSize) ==
    /\ order.kind = "none"
    /\ order' = configurePizzaOrder(desiredSize, toppingsToAdd, toppingsToRemove)
    /\ UNCHANGED <<toppingsToAdd, toppingsToRemove>>
    /\ UNCHANGED <<engineVars, definerVars, iteratorVars>>

(***************************************************************************)
(* The iterators of describe.                                              *)
(* A call of describe runs nothing: it makes a generator object whose     *)
(* frame holds the arguments and, once started, the locals knownFlags,     *)
(* unknownBits and the loop counter.  next() runs the body up to the next  *)
(* yield; return() ends the generator where it stands.                     *)
(***************************************************************************)
Iterators == {1, 2}

\* pc is the yield at which the generator is suspended; out is what the
\* caller has received from it so far
NoIterator ==
    [open |-> FALSE, value |-> 0, defs |-> NoTable, pc |-> "start", knownFlags |-> <<>>,
     unknownBits |-> 0, bit |-> 0, index |-> 0, out |-> <<>>]

Yield(it, pc, record) == [it EXCEPT !.pc = pc, !.out = Append(@, record)]

Finish(it) == [it EXCEPT !.pc = "done"]

\* for (let bit = from; bit < 31; bit++) up to the first bit of `bits`: the
\* bit at which the loop yields, 31 when it runs out
RECURSIVE scanBits(_, _)
scanBits(bits, bit) ==
    IF bit >= 31 THEN 31
    ELSE IF BitAnd(bits, ShiftLeftOne(bit)) # 0 THEN bit
         ELSE scanBits(bits, bit + 1)

\* one of the two loops over the bits, entered or resumed at bit `from`
bitsFrom(it, pc, bits, from, prefix, unknown) ==
    LET bit == scanBits(bits, from)
    IN  IF bit < 31
        THEN [Yield(it, pc, FlagRecord(<<prefix>> \o NumberToString(FromInt32(bit)),
                                       FromInt32(ShiftLeftOne(bit)), unknown))
                 EXCEPT !.bit = bit]
        ELSE Finish(it)

\* for (const flag of knownFlags) yield flag, entered or resumed at `index`,
\* and what follows it
knownFrom(it, index) ==
    IF index <= Len(it.knownFlags)
    THEN [Yield(it, "known", it.knownFlags[index]) EXCEPT !.index = index]
    ELSE IF it.unknownBits # 0
         THEN bitsFrom(it, "unknown", it.unknownBits, 0, "UNKNOWN_BIT_", TRUE)
         ELSE Finish(it)

\* next(): the body of *describe from where the generator stands to its
\* next yield or its end
resume(it) ==
    CASE it.pc = "start" ->
            IF it.value = 0 THEN Yield(it, "none", NoneRecord)
            ELSE LET k == IF it.defs.defined
                          THEN knownLoop(it.value, it.defs.entries, 1, <<>>, it.value)
                          ELSE [knownFlags |-> <<>>, unknownBits |-> it.value]
                     started == [it EXCEPT !.knownFlags = k.knownFlags,
                                           !.unknownBits = k.unknownBits]
                 IN  IF ~it.defs.defined \/ Len(it.defs.entries) = 0
                     THEN bitsFrom(started, "bits", it.value, 0, "BIT_", FALSE)
                     ELSE knownFrom(started, 1)
      [] it.pc = "none" -> Finish(it)
      [] it.pc = "bits" -> bitsFrom(it, "bits", it.value, it.bit + 1, "BIT_", FALSE)
      [] it.pc = "known" -> knownFrom(it, it.index + 1)
      [] it.pc = "unknown" ->
            bitsFrom(it, "unknown", it.unknownBits, it.bit + 1, "UNKNOWN_BIT_", TRUE)
      [] OTHER -> it

\* The raw numbers whose wrappers are iterated: 0, 5, 7 and 2^30 + 3.
IterateInputs == { Zero, Num(FALSE, 0, 5), Num(FALSE, 0, 7), Num(FALSE, 2^14, 3) }

\* The tables handed to the iterated describe: none, two single bits, a
\* combined flag before its parts, and a zero-valued name with the top bit.
IterateTables ==
    { NoTable,
      Table(<<Entry("READ", 1), Entry("EXECUTE", 4)>>),
      Table(<<Entry("READ_WRITE", 3), Entry("READ", 1), Entry("WRITE", 2),
              Entry("EXECUTE", 4)>>),
      Table(<<Entry("NONE", 0), Entry("TOP", 2^30)>>) }

\* const it = w.describe(flagDefinitions); an iterator the caller held in
\* the same place is dropped where it stood
Iterate(i, flagDefinitions) ==
    /\ w.live
    /\ iters' = [iters EXCEPT ![i] = [NoIterator EXCEPT !.open = TRUE, !.value = w.value,
                                                       !.defs = flagDefinitions]]
    /\ UNCHANGED <<engineVars, definerVars, exampleVars>>

\* it.next() with one frame for all the unfinished generators of the
\* wrapper: they all move, the caller of next() receives the record
NextRecord_SharedFrame(i) ==
    /\ iters[i].open
    /\ iters' = [j \in Iterators |->
                    IF j = i THEN resume(iters[i])
                    ELSE IF iters[j].open /\ iters[j].pc \notin {"done", "returned"}
                         THEN [resume(iters[i]) EXCEPT !.out = iters[j].out,
                                                       !.defs = iters[j].defs]
                         ELSE iters[j]]
    /\ UNCHANGED <<engineVars, definerVars, exampleVars>>

\* it.next()
NextRecord(i) ==
    /\ iters[i].open
    /\ iters' = [iters EXCEPT ![i] = resume(@)]
    /\ UNCHANGED <<engineVars, definerVars, exampleVars>>

\* it.return(), as a for...of loop left by break calls it
ReturnIterator(i) ==
    /\ iters[i].open
    /\ iters[i].pc # "done"
    /\ iters' = [iters EXCEPT ![i].pc = "returned"]
    /\ UNCHANGED <<engineVars, definerVars, exampleVars>>

Init ==
    /\ w = NoWrapper
    /\ rw = NoWrapper
    /\ pool \in FlagPools
    /\ ret = NoCall
    /\ inDomain = TRUE
    /\ obj = <<>>
    /\ objFrozen = FALSE
    /\ nodeEnv = "development"
    /\ defRet = NoOutcome
    /\ writeRet = NoWrite
    /\ toppingsToAdd = bitflag(Undefined).value
    /\ toppingsToRemove = bitflag(Undefined).value
    /\ order = NoOrder
    /\ iters = [i \in Iterators |-> NoIterator]

Next ==
    \/ \E flag \in RawInputs : Bitflag(flag)
    \/ Rewrap
    \/ \E t \in Receivers, flags \in ArgLists : Has(t, flags)
    \/ \E t \in Receivers, flags \in ArgLists : HasAny(t, flags)
    \/ \E t \in Receivers, flags \in ArgLists : HasExact(t, flags)
    \/ \E t \in Receivers, flags \in ArgLists : Add(t, flags)
    \/ \E t \in Receivers, flags \in ArgLists : Remove(t, flags)
    \/ \E t \in Receivers, flags \in ArgLists : Toggle(t, flags)
    \/ \E t \in Receivers : Clear(t)
    \/ \E t \in Receivers : GetValue(t)
    \/ \E t \in Receivers : ValueOf(t)
    \/ \E t \in Receivers : ToStringCall(t)
    \/ \E v \in UtilInputs : IsBitflag(v)
    \/ \E v \in UtilInputs : MakeBitflag(v)
    \/ \E v \in UtilInputs : UnwrapBitflag(v)

Spec == Init /\ [][Next]_vars

NextDefiner ==
    \/ \E key \in Keys, n \in EntryValues : Assign(key, n)
    \/ \E key \in Keys : Delete(key)
    \/ NewObject
    \/ \E env \in Environments : SetEnv(env)
    \/ DefineBitflags

SpecDefiner == Init /\ [][NextDefiner]_vars

NextDescribe ==
    \/ \E flag \in DescribeInputs : Bitflag(flag)
    \/ \E t \in Receivers, defs \in Tables : Describe(t, defs)

SpecDescribe == Init /\ [][NextDescribe]_vars

NextPizza ==
    \/ \E key \in ToppingNames : WantTopping(key)
    \/ \E key \in ToppingNames : DeclineTopping(key)
    \/ \E desiredSize \in Sizes : ConfigurePizzaOrder(desiredSize)

SpecPizza == Init /\ [][NextPizza]_vars

NextIterate ==
    \/ \E flag \in IterateInputs : Bitflag(flag)
    \/ \E i \in Iterators, defs \in IterateTables : Iterate(i, defs)
    \/ \E i \in Iterators : NextRecord(i)
    \/ \E i \in Iterators : ReturnIterator(i)

SpecIterate == Init /\ [][NextIterate]_vars

(***************************************************************************)
(* Vocabulary of the properties.  A signed 32-bit integer is read as the   *)
(* set of its bit positions, 31 being the sign bit.                        *)
(***************************************************************************)
BitsOf(v) == {p \in 0..31 : IF p = 31 THEN v < 0 ELSE (v \div 2^p) % 2 = 1}

\* the bits of all the arguments of a call together
ArgBits(flags) == UNION {BitsOf(ToInt32(flags[i])) : i \in 1..Len(flags)}

\* the integer an in-domain number is
IntOf(n) == n.hi * Base + n.lo

In31(v) == 0 <= v /\ v <= 2147483647

\* what a wrapper reports through value, valueOf() and toString()
Reports(x) == <<getValue(x.value), valueOf(x.value), toString(x.value)>>

\* the captured value of the receiver of the call in ret
Self == Receiver(ret.on).value

(***************************************************************************)
(* C1.  No call on a wrapper changes what the wrapper reports: on every    *)
(* step, w reports the same value, valueOf() and toString() as before, and *)
(* so does rw on every step that is a method call (rw is replaced only by  *)
(* wrapping anew).                                                         *)
(***************************************************************************)
SameReports(x, y) == x = y \/ Reports(x) = Reports(y)

C1_Immutable ==
    [][ /\ w.live => (w'.live /\ SameReports(w', w))
        /\ (rw.live /\ ret'.op # "none") => (rw'.live /\ SameReports(rw', rw))
      ]_vars

\* add() on w has returned a number other than w's own while rw exists too
C1_Witness ==
    /\ ret.op = "add" /\ ret.on = "w" /\ ret.num # w.value
    /\ rw.live /\ rw.value # w.value

(***************************************************************************)
(* C2.  As long as every number handed to the library is an integer in     *)
(* [0, 0x7FFFFFFF], so is every captured value and every number returned   *)
(* by add, remove, toggle and clear.                                       *)
(***************************************************************************)
C2_StaysInDomain ==
    inDomain =>
        /\ w.live => In31(w.value)
        /\ rw.live => In31(rw.value)
        /\ ret.op \in DeriveOps => In31(ret.num)

\* a remove on a receiver holding 0x7FFFFFFF has cleared bits, all in domain
C2_Witness ==
    /\ inDomain /\ ret.op = "remove" /\ Len(ret.flags) > 0
    /\ Self = 2147483647 /\ ret.num # Self

(***************************************************************************)
(* C3.  With a non-empty argument list over [0, 0x7FFFFFFF]: has is true   *)
(* iff every bit of the arguments is set in the value, hasAny iff some bit *)
(* of the arguments is set in the value, hasExact iff the value's bits are *)
(* exactly the arguments' bits.                                            *)
(***************************************************************************)
C3_Membership ==
    (Len(ret.flags) > 0 /\ AllInDomain(ret.flags)) =>
        /\ ret.op = "has" => (ret.bool <=> ArgBits(ret.flags) \subseteq BitsOf(Self))
        /\ ret.op = "hasAny" => (ret.bool <=> ArgBits(ret.flags) \cap BitsOf(Self) # {})
        /\ ret.op = "hasExact" => (ret.bool <=> ArgBits(ret.flags) = BitsOf(Self))

\* has(x, y) is false for a value that holds one of two different flags
C3_Witness ==
    /\ ret.op = "has" /\ Len(ret.flags) = 2 /\ AllInDomain(ret.flags)
    /\ ret.flags[1] # ret.flags[2]
    /\ ~ret.bool
    /\ ArgBits(ret.flags) \cap BitsOf(Self) # {}

(***************************************************************************)
(* C4.  With no arguments has() and hasAny() are false, and hasExact() is  *)
(* true exactly when the value is 0.                                       *)
(***************************************************************************)
C4_NoArguments ==
    ret.flags = <<>> =>
        /\ ret.op = "has" => ~ret.bool
        /\ ret.op = "hasAny" => ~ret.bool
        /\ ret.op = "hasExact" => (ret.bool <=> Self = 0)

\* has() has answered false on a wrapper with every bit set
C4_Witness ==
    ret.op = "has" /\ ret.flags = <<>> /\ Self = 2147483647 /\ ~ret.bool

\* the value captured when the number a derivation returned is wrapped again
Rewrapped(n) == bitflag(FromInt32(n)).value

(***************************************************************************)
(* C5.  add returns the value with the arguments' bits set as well, the    *)
(* value itself when there are no arguments, and adding one flag again to  *)
(* the re-wrapped result of add returns that result.                       *)
(***************************************************************************)
C5_AddIsUnion ==
    ret.op = "add" =>
        /\ BitsOf(ret.num) = BitsOf(Self) \cup ArgBits(ret.flags)
        /\ ret.flags = <<>> => ret.num = Self
        /\ Len(ret.flags) = 1 => add(Rewrapped(ret.num), ret.flags) = ret.num

\* add(x) on a re-wrapped value that already holds x returned the same number
C5_Witness ==
    /\ ret.op = "add" /\ ret.on = "rw" /\ Len(ret.flags) = 1
    /\ ArgBits(ret.flags) # {}
    /\ ArgBits(ret.flags) \subseteq BitsOf(rw.value)
    /\ rw.value # w.value
    /\ ret.num = rw.value

(***************************************************************************)
(* C6.  remove returns the value with the arguments' bits cleared, the     *)
(* value itself when there are no arguments or when none of the arguments' *)
(* bits is set in it, and the re-wrapped result shares no bit with the     *)
(* arguments.                                                              *)
(***************************************************************************)
C6_RemoveIsDifference ==
    ret.op = "remove" =>
        /\ BitsOf(ret.num) = BitsOf(Self) \ ArgBits(ret.flags)
        /\ ret.flags = <<>> => ret.num = Self
        /\ ArgBits(ret.flags) \cap BitsOf(Self) = {} => ret.num = Self
        /\ ~hasAny(Rewrapped(ret.num), ret.flags)

\* remove(x, y) where the value held one of the two flags and not the other
C6_Witness ==
    /\ ret.op = "remove" /\ Len(ret.flags) = 2
    /\ ArgBits(ret.flags) \cap BitsOf(Self) # {}
    /\ ~(ArgBits(ret.flags) \subseteq BitsOf(Self))
    /\ ret.num # Self

(***************************************************************************)
(* C7.  For a value in [0, 0x7FFFFFFF], toggling the re-wrapped result of  *)
(* toggle by the same arguments returns the value, and toggle with no      *)
(* arguments returns the value.                                            *)
(***************************************************************************)
C7_ToggleInvolution ==
    (ret.op = "toggle" /\ In31(Self)) =>
        /\ toggle(Rewrapped(ret.num), ret.flags) = Self
        /\ ret.flags = <<>> => ret.num = Self

\* toggle(x, y) has set one bit and cleared another
C7_Witness ==
    /\ ret.op = "toggle" /\ In31(Self) /\ Len(ret.flags) = 2
    /\ BitsOf(ret.num) \ BitsOf(Self) # {}
    /\ BitsOf(Self) \ BitsOf(ret.num) # {}

\* reading a string of decimal digits
DigitValue(c) ==
    CASE c = "0" -> 0 [] c = "1" -> 1 [] c = "2" -> 2 [] c = "3" -> 3 [] c = "4" -> 4
      [] c = "5" -> 5 [] c = "6" -> 6 [] c = "7" -> 7 [] c = "8" -> 8 [] c = "9" -> 9

RECURSIVE ParseDecimal(_)
ParseDecimal(s) ==
    IF s = <<>> THEN 0
    ELSE 10 * ParseDecimal(SubSeq(s, 1, Len(s) - 1)) + DigitValue(s[Len(s)])

\* s is the decimal string of the integer n >= 0: digits only, no leading
\* zero, and they read as n
IsDecimalOf(s, n) ==
    /\ Len(s) >= 1
    /\ \A i \in 1..Len(s) : s[i] \in {"0", "1", "2", "3", "4", "5", "6", "7", "8", "9"}
    /\ Len(s) > 1 => s[1] # "0"
    /\ ParseDecimal(s) = n

Wrappers == {x \in {w, rw} : x.live}

(***************************************************************************)
(* C8.  A wrapper made from an integer n in [0, 0x7FFFFFFF] reports n as   *)
(* value and valueOf() and the decimal string of n as toString(); a        *)
(* wrapper made with no argument has value 0.                              *)
(***************************************************************************)
C8_RoundTrip ==
    /\ \A x \in Wrappers :
          /\ InFlagDomain(x.flag) =>
                /\ getValue(x.value) = IntOf(x.flag)
                /\ valueOf(x.value) = IntOf(x.flag)
                /\ IsDecimalOf(toString(x.value), IntOf(x.flag))
          /\ x.flag = Undefined => getValue(x.value) = 0
    /\ (ret.op \in {"value", "valueOf"} /\ InFlagDomain(Receiver(ret.on).flag)) =>
          ret.num = IntOf(Receiver(ret.on).flag)
    /\ (ret.op = "toString" /\ InFlagDomain(Receiver(ret.on).flag)) =>
          IsDecimalOf(ret.str, IntOf(Receiver(ret.on).flag))

\* toString() on bitflag(0x7FFFFFFF) has returned "2147483647"
C8_Witness ==
    /\ ret.op = "toString"
    /\ Receiver(ret.on).flag = MaxFlagValue
    /\ ret.str = <<"2", "1", "4", "7", "4", "8", "3", "6", "4", "7">>

\* A raw integer n as floor(n / 2^16) and n mod 2^16.
FloorHi(n) ==
    IF ~n.neg THEN n.hi ELSE IF n.lo = 0 THEN -n.hi ELSE -n.hi - 1
FloorLo(n) ==
    IF ~n.neg \/ n.lo = 0 THEN n.lo ELSE Base - n.lo

\* v and the raw integer n differ by a multiple of 2^32
Congruent32(v, n) ==
    /\ v % Base = FloorLo(n)
    /\ ((v \div Base) - FloorHi(n)) % Base = 0

\* bit 31 of the two's complement form of n is clear
Bit31Clear(n) == FloorHi(n) % Base < 2^15

(***************************************************************************)
(* C9 as stated.  Wrapping any raw integer gives a value in                *)
(* [0, 0x7FFFFFFF], and so does every add/remove/toggle computed from raw  *)
(* integers.                                                               *)
(***************************************************************************)
C9_Original ==
    /\ \A x \in Wrappers : x.flag.k = "int" => In31(x.value)
    /\ ret.op \in {"add", "remove", "toggle"} => In31(ret.num)

(***************************************************************************)
(* C9 amended.  Wrapping a raw integer n gives the signed 32-bit integer   *)
(* that differs from n by a multiple of 2^32: bits beyond the 32nd are     *)
(* discarded and bit 31 is kept as the sign, so the value is in            *)
(* [-2^31, 2^31 - 1], and in [0, 0x7FFFFFFF] exactly when bit 31 of n is   *)
(* clear.  An add/remove/toggle result is in [0, 0x7FFFFFFF] whenever the  *)
(* receiver's value is and bit 31 of every argument is clear.              *)
(***************************************************************************)
C9_SignedWrap ==
    /\ \A x \in Wrappers :
          x.flag.k = "int" =>
              /\ -2147483647 - 1 <= x.value /\ x.value <= 2147483647
              /\ Congruent32(x.value, x.flag)
              /\ In31(x.value) <=> Bit31Clear(x.flag)
    /\ ( /\ ret.op \in {"add", "remove", "toggle"}
         /\ In31(Self)
         /\ \A i \in 1..Len(ret.flags) : Bit31Clear(ret.flags[i]) ) => In31(ret.num)

\* bitflag(2^32 + 5) holds 5, and a toggle on a re-wrapped negative number
\* has returned a negative number
C9_Witness ==
    /\ w.flag = Num(FALSE, Base, 5) /\ w.value = 5
    /\ rw.live /\ rw.value < 0
    /\ ret.op = "toggle" /\ ret.on = "rw" /\ ret.num < 0

\* the entries of obj whose value is not an integer in [0, 0x7FFFFFFF]
BadEntries == {i \in 1..Len(obj) : ~InFlagDomain(obj[i].value)}

(***************************************************************************)
(* C10 as stated.  defineBitflags returns the table iff every value of the *)
(* mapping is an integer in [0, 0x7FFFFFFF]; otherwise it throws, with the *)
(* message naming an entry that is out of that range and its value.        *)
(***************************************************************************)
C10_Original ==
    defRet.kind # "none" =>
        /\ defRet.kind = "returned" <=> BadEntries = {}
        /\ defRet.kind = "thrown" =>
              \E i \in BadEntries :
                  defRet.message =
                      <<"Invalid bitflag value for \"", obj[i].key, "\": ">>
                          \o NumberToString(obj[i].value)
                          \o <<". Must be a non-negative integer within 31-bit range.">>

\* the same statement for the calls made while NODE_ENV is not 'production'
C10_OutsideProduction == defRet.env # "production" => C10_Original

\* the message expected for entry i of obj
ExpectedMessage(i) ==
    <<"Invalid bitflag value for \"", obj[i].key, "\": ">>
        \o NumberToString(obj[i].value)
        \o <<". Must be a non-negative integer within 31-bit range.">>

\* the first entry of obj, in insertion order, that is out of range
FirstBad == CHOOSE i \in BadEntries : \A j \in BadEntries : i <= j

(***************************************************************************)
(* C11 as stated.  When the mapping holds an invalid entry, defineBitflags *)
(* throws, the message names the first invalid entry in insertion order    *)
(* and its value, and no table is returned.                                *)
(***************************************************************************)
C11_Original ==
    (defRet.kind # "none" /\ BadEntries # {}) =>
        /\ defRet.kind = "thrown"
        /\ defRet.message = ExpectedMessage(FirstBad)
        /\ defRet.table = <<>>

\* the same statement for the calls made while NODE_ENV is not 'production'
C11_OutsideProduction == defRet.env # "production" => C11_Original

(***************************************************************************)
(* C12 as stated.  Whatever NODE_ENV is, no table that holds a value       *)
(* outside [0, 0x7FFFFFFF] is ever returned.                               *)
(***************************************************************************)
C12_Original ==
    defRet.kind = "returned" =>
        \A i \in 1..Len(defRet.table) : InFlagDomain(defRet.table[i].value)

(***************************************************************************)
(* C13.  Once defineBitflags has returned a table, the table is the        *)
(* caller's object, frozen: whatever assignments of new or existing names  *)
(* and whatever deletes are attempted afterwards, its names and values     *)
(* (and their order) are those it had when it was returned.                *)
(***************************************************************************)
C13_FrozenTable ==
    defRet.kind = "returned" => objFrozen /\ obj = defRet.table

\* a write was attempted on a returned, non-empty table and was rejected
C13_Witness ==
    /\ defRet.kind = "returned"
    /\ defRet.table # <<>>
    /\ writeRet.op # "none"
    /\ writeRet.threw

(***************************************************************************)
(* C14 as stated.  For every value v of the mapping, isBitflag(v) is true  *)
(* exactly when v is an integer in [0, 0x7FFFFFFF], makeBitflag(v) returns *)
(* v when isBitflag(v) and throws otherwise, and defineBitflags accepts    *)
(* the values exactly when isBitflag accepts them.                         *)
(***************************************************************************)
C14_Original ==
    /\ \A i \in 1..Len(obj) :
          LET v == obj[i].value
          IN  /\ isBitflag(v) <=> InFlagDomain(v)
              /\ IF isBitflag(v)
                 THEN ~makeBitflag(v).threw /\ makeBitflag(v).value = v
                 ELSE makeBitflag(v).threw
    /\ defRet.kind # "none" =>
          (defRet.kind = "returned" <=> \A i \in 1..Len(obj) : isBitflag(obj[i].value))

\* the same statement for the calls made while NODE_ENV is not 'production'
C14_OutsideProduction == defRet.env # "production" => C14_Original

\* the two predicates on the values handed to them directly, values that
\* are not numbers included
C14_Utilities ==
    /\ ret.op = "isBitflag" => (ret.bool <=> InFlagDomain(ret.flags[1]))
    /\ ret.op = "makeBitflag" =>
          IF InFlagDomain(ret.flags[1])
          THEN ret.err = <<>> /\ ret.raw = ret.flags[1]
          ELSE ret.err # <<>>

(***************************************************************************)
(* C15.  Of the calls on the engine and the utilities only makeBitflag     *)
(* raises an error: bitflag(n) yields a wrapper for every number it is     *)
(* given, validated or not, and every has, hasAny, hasExact, add, remove,  *)
(* toggle, clear, describe, value, valueOf, toString, isBitflag and        *)
(* unwrapBitflag call returns.                                             *)
(***************************************************************************)
C15_OnlyMakeBitflagThrows ==
    /\ w = NoWrapper \/ w.live
    /\ rw = NoWrapper \/ rw.live
    /\ ret.err # <<>> => ret.op = "makeBitflag"

\* a wrapper of a number that was never validated has answered a call whose
\* arguments were never validated either
C15_Witness ==
    /\ w.live
    /\ w.flag.k = "int"
    /\ ~InFlagDomain(w.flag)
    /\ ret.op \in {"has", "add", "remove", "toggle"}
    /\ ret.on = "w"
    /\ ret.flags # <<>>
    /\ ~AllInDomain(ret.flags)
    /\ ret.err = <<>>

\* makeBitflag has raised its error
C15_MakeBitflagThrew == ret.op = "makeBitflag" /\ ret.err = MakeBitflagMessage

(***************************************************************************)
(* Vocabulary for the describe claims.                                     *)
(***************************************************************************)
\* the last call was describe, on a wrapper whose value is Self
Described == ret.op = "describe"

NoOrEmptyTable == ~ret.defs.defined \/ ret.defs.entries = <<>>

\* the number of elements of S that are at most p
Rank(p, S) == Cardinality({q \in S : q <= p})

\* the bits of the values of the records at the indices J
RecordBits(J) == UNION {BitsOf(ToInt32(ret.recs[j].value)) : j \in J}

\* the record is the one of bit p under the given prefix
IsBitRecord(r, prefix, p, unknown) ==
    /\ Len(r.name) >= 2
    /\ r.name[1] = prefix
    /\ IsDecimalOf(Tail(r.name), p)
    /\ r.value = Num(FALSE, (2^p) \div Base, (2^p) % Base)
    /\ r.unknown = unknown

KnownRecords == {j \in 1..Len(ret.recs) : ~ret.recs[j].unknown}
UnknownRecords == {j \in 1..Len(ret.recs) : ret.recs[j].unknown}

EntryIndex(name) ==
    CHOOSE i \in 1..Len(ret.defs.entries) : <<ret.defs.entries[i].key>> = name

(***************************************************************************)
(* C20.  With a table that has entries, every known record comes before    *)
(* every unknown record, the known records come in the order of the        *)
(* table's entries, and the unknown records in strictly ascending bit      *)
(* position.                                                               *)
(***************************************************************************)
C20_Order ==
    (Described /\ ~NoOrEmptyTable /\ Self # 0) =>
        \A j, k \in 1..Len(ret.recs) :
            j < k =>
                /\ ~(ret.recs[j].unknown /\ ~ret.recs[k].unknown)
                /\ (j \in KnownRecords /\ k \in KnownRecords) =>
                      EntryIndex(ret.recs[j].name) < EntryIndex(ret.recs[k].name)
                /\ (j \in UnknownRecords /\ k \in UnknownRecords) =>
                      /\ ParseDecimal(Tail(ret.recs[j].name)) < ParseDecimal(Tail(ret.recs[k].name))
                      /\ IntOf(ret.recs[j].value) < IntOf(ret.recs[k].value)

\* several known records were followed by several unknown ones
C20_Witness ==
    /\ Described
    /\ ~NoOrEmptyTable
    /\ Cardinality(KnownRecords) >= 2
    /\ Cardinality(UnknownRecords) >= 2

\* the 32-bit integer that is the value of the record
RecordValue(r) == ToInt32(r.value)

RECURSIVE ParseTokens(_)
ParseTokens(s) ==
    IF s = <<>> THEN <<>>
    ELSE IF s[1] = "0" THEN <<"unset">> \o ParseTokens(Tail(s))
    ELSE IF Len(s) >= 3 /\ s[1] = "[" /\ s[2] = "1" /\ s[3] = "]"
         THEN <<"set">> \o ParseTokens(SubSeq(s, 4, Len(s)))
    ELSE <<"malformed">>

C26_Original == Described => Len(ret.recs) <= 31

(***************************************************************************)
(* C26 amended.  describe yields a finite sequence: at most 31 records     *)
(* without a table or with an empty one; with a table that has entries, at *)
(* most one known record per entry and at most one unknown record per bit  *)
(* 0..30 that no known record covers, which can be more than 31 in all     *)
(* when entries overlap.                                                   *)
(***************************************************************************)
C26_RecordCount ==
    Described =>
        IF NoOrEmptyTable \/ Self = 0
        THEN Len(ret.recs) <= 31
        ELSE /\ Cardinality(KnownRecords) <= Len(ret.defs.entries)
             /\ Cardinality(UnknownRecords)
                   <= 31 - Cardinality(RecordBits(KnownRecords) \cap 0..30)
             /\ Len(ret.recs) = Cardinality(KnownRecords) + Cardinality(UnknownRecords)

\* 32 records: four known records over three bits and 28 unknown bits
C26_Witness ==
    /\ Described
    /\ Len(ret.recs) = 32
    /\ Cardinality(KnownRecords) = 4

\* the entries of the table whose value is 0
ZeroEntries == {i \in 1..Len(ret.defs.entries) : IntOf(ret.defs.entries[i].value) = 0}

C27_ZeroFlag ==
    /\ (ret.flags # <<>> /\ ArgBits(ret.flags) = {}) =>
          /\ ret.op = "has" => ret.bool
          /\ ret.op = "hasAny" => ~ret.bool
          /\ ret.op = "hasExact" => (ret.bool <=> Self = 0)
    /\ (ret.flags = <<>> /\ ret.op = "has") => ~ret.bool

\* has(0) has answered true on a wrapper whose value is not 0
C27_Witness ==
    /\ ret.op = "has"
    /\ ret.flags = <<Zero>>
    /\ Self # 0
    /\ ret.bool

\* the result the method gives for these arguments on a wrapper of v
Apply(op, v, flags) ==
    CASE op = "has" -> has(v, flags)
      [] op = "hasAny" -> hasAny(v, flags)
      [] op = "hasExact" -> hasExact(v, flags)
      [] op = "add" -> add(v, flags)
      [] op = "remove" -> remove(v, flags)
      [] op = "toggle" -> toggle(v, flags)

\* the result the call in ret gave
Result == IF ret.op \in {"has", "hasAny", "hasExact"} THEN ret.bool ELSE ret.num

Reverse(s) == [i \in 1..Len(s) |-> s[Len(s) + 1 - i]]

\* the flags applied one at a time, each result wrapped again
RECURSIVE OneAtATime(_, _, _)
OneAtATime(op, v, flags) ==
    IF flags = <<>> THEN v
    ELSE OneAtATime(op, Rewrapped(Apply(op, v, <<Head(flags)>>)), Tail(flags))

VariadicOps == {"has", "hasAny", "hasExact", "add", "remove", "toggle"}

(***************************************************************************)
(* C28.  A variadic call with arguments depends only on the OR of the      *)
(* arguments: reversing them, repeating them, or passing any other         *)
(* arguments with the same bits gives the same result.  add and remove of  *)
(* several flags equal applying the flags one at a time with re-wrapping.  *)
(* toggle does not when arguments share bits: toggle(x, x) is toggle(x),   *)
(* which is not the original value unless x has no bits, and toggle(x, y)  *)
(* differs from toggling x then y exactly when x and y share a bit.        *)
(***************************************************************************)
C28_OnlyTheUnionMatters ==
    (ret.op \in VariadicOps /\ ret.flags # <<>>) =>
        /\ Apply(ret.op, Self, Reverse(ret.flags)) = Result
        /\ Apply(ret.op, Self, ret.flags \o ret.flags) = Result
        /\ \A g \in ArgLists :
              (g # <<>> /\ ArgBits(g) = ArgBits(ret.flags)) => Apply(ret.op, Self, g) = Result
        /\ ret.op \in {"add", "remove"} => OneAtATime(ret.op, Self, ret.flags) = ret.num
        /\ (ret.op = "toggle" /\ Len(ret.flags) = 2) =>
              LET x == ret.flags[1]
                  y == ret.flags[2]
              IN  /\ x = y =>
                        /\ ret.num = toggle(Self, <<x>>)
                        /\ ret.num = Self <=> ArgBits(<<x>>) = {}
                  /\ OneAtATime("toggle", Self, ret.flags) # ret.num
                        <=> BitsOf(ToInt32(x)) \cap BitsOf(ToInt32(y)) # {}

\* toggle(x, y) with x and y sharing a bit has given another result than
\* toggling x and then y
C28_Witness ==
    /\ ret.op = "toggle"
    /\ Len(ret.flags) = 2
    /\ ret.flags[1] # ret.flags[2]
    /\ BitsOf(ToInt32(ret.flags[1])) \cap BitsOf(ToInt32(ret.flags[2])) # {}
    /\ OneAtATime("toggle", Self, ret.flags) # ret.num

\* toggle(x, x) with a flag x that has bits has changed the value
C28_ToggleTwice ==
    /\ ret.op = "toggle"
    /\ Len(ret.flags) = 2
    /\ ret.flags[1] = ret.flags[2]
    /\ ret.num # Self

(***************************************************************************)
(* C29.  defineBitflags freezes the caller's mapping itself, before it     *)
(* validates: after a call that returned, the table is the mapping as the  *)
(* caller built it; after a call that threw, the mapping is frozen all the *)
(* same and still holds its invalid entry.                                 *)
(***************************************************************************)
C29_FrozenInPlace ==
    /\ defRet.kind # "none" => objFrozen
    /\ defRet.kind = "returned" => defRet.table = obj
    /\ defRet.kind = "thrown" => (BadEntries # {} /\ defRet.table = <<>>)

\* after a call that threw, a write to the caller's mapping was rejected
C29_Witness ==
    /\ defRet.kind = "thrown"
    /\ objFrozen
    /\ writeRet.op = "set"
    /\ writeRet.threw

(***************************************************************************)
(* C25.  Every pizza configurePizzaOrder returns has CHEESE and at most    *)
(* one of PEPPERONI, BACON and HAM, whatever toppings were asked for and   *)
(* declined.                                                               *)
(***************************************************************************)
ToppingBit(key) == CHOOSE p \in 0..6 : IntOf(Topping(key)) = 2^p

\* the toppings of the pizza returned
OnPizza == {key \in ToppingNames : ToppingBit(key) \in BitsOf(order.pizza)}

Meats == {"PEPPERONI", "BACON", "HAM"}

C25_Original ==
    order.kind = "returned" =>
        /\ "CHEESE" \in OnPizza
        /\ Cardinality(OnPizza \cap Meats) <= 1

\* what the code does keep: a returned pizza has CHEESE, and has several
\* meats only when PEPPERONI was declined and all of them were asked for
C25_CheeseAndDefaultMeat ==
    order.kind = "returned" =>
        /\ "CHEESE" \in OnPizza
        /\ Cardinality(OnPizza \cap Meats) > 1 =>
               /\ ToppingBit("PEPPERONI") \in BitsOf(toppingsToRemove)
               /\ \A key \in OnPizza \cap Meats : ToppingBit(key) \in BitsOf(toppingsToAdd)

(***************************************************************************)
(* C21.  Two iterators obtained from describe on the same wrapper with the *)
(* same table hand out the same records in the same order, however their  *)
(* next() calls are interleaved and whether or not one of them is left     *)
(* part-way: what each has received so far agrees record by record (name,  *)
(* value, unknown, bitPosition and the rest) with what the other has, and  *)
(* an iterator that ran to its end has received at least as much as the    *)
(* other.                                                                  *)
(***************************************************************************)
SameCall(i, j) ==
    /\ iters[i].open
    /\ iters[j].open
    /\ iters[i].value = iters[j].value
    /\ iters[i].defs = iters[j].defs

IsPrefix(s, t) == Len(s) <= Len(t) /\ \A k \in 1..Len(s) : s[k] = t[k]

C21_SameSequence ==
    \A i \in Iterators, j \in Iterators :
        SameCall(i, j) =>
            /\ IsPrefix(iters[i].out, iters[j].out) \/ IsPrefix(iters[j].out, iters[i].out)
            /\ iters[i].pc = "done" => IsPrefix(iters[j].out, iters[i].out)
            /\ (iters[i].pc = "done" /\ iters[j].pc = "done") => iters[i].out = iters[j].out

\* one iterator ran to its end through known flags and unknown bits while
\* the other, on the same table, was left after its first record
C21_Witness ==
    /\ SameCall(1, 2)
    /\ iters[1].pc = "done"
    /\ \E k \in 1..Len(iters[1].out) : iters[1].out[k].unknown
    /\ \E k \in 1..Len(iters[1].out) : ~iters[1].out[k].unknown
    /\ iters[2].pc = "returned"
    /\ Len(iters[2].out) = 1

\* a drained iterator has received what the drained describe gives
C21_DrainedIsDescribe ==
    \A i \in Iterators :
        (iters[i].open /\ iters[i].pc = "done") =>
            iters[i].out = describe(iters[i].value, iters[i].defs)

====
